---------------------------- MODULE Spec2Model ----------------------------
(***************************************************************************)
(* Olympic dashboard (Homework2/johene): the name / country normalisation, *)
(* join, roll-up and top-K pipelines of SankeyDiagram.vue,                 *)
(* MedalHeatmap.vue and AthletesMap.vue, and the render scheduling of      *)
(* AthletesMap.vue.                                                        *)
(*                                                                         *)
(* A personal name is a sequence of one-character strings, so that trim,   *)
(* split and toLowerCase are computed and not assumed.  Country,           *)
(* discipline and medal labels of the medal tables are TLA+ strings, the   *)
(* empty string standing for a missing or empty CSV field (the code tests  *)
(* these fields for falsiness only).                                       *)
(***************************************************************************)
EXTENDS Integers, Sequences, FiniteSets, TLC

VARIABLES
    nameCall,       \* one call of normalizeName: arguments and return value
    countryCall,    \* one call of normalizeCountry: arguments and return value
    medallistsCsv,  \* rows of medallists.csv
    medalsCsv,      \* rows of medals.csv
    sankey,         \* SankeyDiagram.vue: locals of loadData, nodes, links
    heatmap,        \* MedalHeatmap.vue: locals of loadHeatmapData, heatmapData
    athletesCsv,    \* rows of athletes.csv
    athleteCounts,  \* AthletesMap.vue: the athleteCounts ref (a Map, in insertion order)
    mounted,        \* AthletesMap.vue: onMounted has run
    athletesLoaded, \* loadAthletes has resolved
    size,           \* AthletesMap.vue: the size ref
    svg,            \* children of #map-svg, in document order
    pendingFetch,   \* initMap calls suspended on the world-map fetch
    started,        \* initMap calls started so far
    rejected        \* initMap calls whose fetch was rejected

vars == <<nameCall, countryCall, medallistsCsv, medalsCsv, sankey, heatmap,
          athletesCsv, athleteCounts, mounted, athletesLoaded, size, svg,
          pendingFetch, started, rejected>>

----------------------------------------------------------------------------
(* Bounds of the model *)

MaxNameLen == 5

----------------------------------------------------------------------------
(* Generic helpers *)

SeqsUpTo(S, n) == UNION {[1..k -> S] : k \in 0..n}

Range(s) == {s[i] : i \in 1..Len(s)}

Min(S) == CHOOSE x \in S : \A y \in S : x <= y

RECURSIVE SumSeq(_)
SumSeq(s) == IF s = <<>> THEN 0 ELSE Head(s) + SumSeq(Tail(s))

----------------------------------------------------------------------------
(* JavaScript strings: trim, split(/\s+/), toLowerCase *)

WhiteSpace == {" ", "\t"}

NameChars == {"a", "B", " ", "\t"}

\* String.prototype.toLowerCase on one character
LowerChar(c) ==
    CASE c = "A" -> "a"
      [] c = "B" -> "b"
      [] c = "C" -> "c"
      [] c = "D" -> "d"
      [] OTHER -> c

toLowerCase(s) == [i \in 1..Len(s) |-> LowerChar(s[i])]

RECURSIVE trimStart(_)
trimStart(s) ==
    IF s # <<>> /\ Head(s) \in WhiteSpace THEN trimStart(Tail(s)) ELSE s

RECURSIVE trimEnd(_)
trimEnd(s) ==
    IF s # <<>> /\ s[Len(s)] \in WhiteSpace
    THEN trimEnd(SubSeq(s, 1, Len(s) - 1))
    ELSE s

trim(s) == trimEnd(trimStart(s))

\* the end of the whitespace run that starts at i (the match of /\s+/ is greedy)
RECURSIVE SkipWhiteSpace(_, _)
SkipWhiteSpace(s, i) ==
    IF i <= Len(s) /\ s[i] \in WhiteSpace THEN SkipWhiteSpace(s, i + 1) ELSE i

\* String.prototype.split(/\s+/): the pieces between whitespace runs, empty
\* pieces included ("" splits to [""], " a" to ["", "a"])
RECURSIVE SplitFrom(_, _, _)
SplitFrom(s, i, piece) ==
    IF i > Len(s) THEN <<piece>>
    ELSE IF s[i] \in WhiteSpace
         THEN <<piece>> \o SplitFrom(s, SkipWhiteSpace(s, i), <<>>)
         ELSE SplitFrom(s, i + 1, Append(piece, s[i]))

splitWhiteSpace(s) == SplitFrom(s, 1, <<>>)

----------------------------------------------------------------------------
(* normalizeName (SankeyDiagram.vue and MedalHeatmap.vue, same text) *)

\* mutant: the reversed flag is ignored
normalizeNameNoSwap(name, reversed) ==
    LET parts == splitWhiteSpace(trim(name))
    IN  IF Len(parts) < 2 THEN toLowerCase(name)
        ELSE toLowerCase(parts[1] \o <<" ">> \o parts[2])

normalizeName(name, reversed) ==
    LET parts == splitWhiteSpace(trim(name))
    IN  IF Len(parts) < 2 THEN toLowerCase(name)
        ELSE IF reversed
             THEN toLowerCase(parts[2] \o <<" ">> \o parts[1])
             ELSE toLowerCase(parts[1] \o <<" ">> \o parts[2])

----------------------------------------------------------------------------
(* JavaScript values of normalizeCountry: undefined, null, a string, or a  *)
(* built-in object reached through the prototype chain                     *)

Undefined == <<"undefined">>
Null == <<"null">>
Str(s) == <<"string", s>>
Builtin(n) == <<"object", n>>

\* !v is false: only undefined, null and "" are falsy among these values
Truthy(v) == v # Undefined /\ v # Null /\ v # Str("")

\* the own properties of the COUNTRY_ALIASES object literal
COUNTRY_ALIASES ==
    ("United States" :> "United States of America") @@
    ("USA" :> "United States of America") @@
    ("Great Britain" :> "United Kingdom") @@
    ("China" :> "China") @@
    ("People's Republic of China" :> "China") @@
    ("Korea" :> "South Korea") @@
    ("Republic of Korea" :> "South Korea") @@
    ("DPR Korea" :> "North Korea") @@
    ("Chinese Taipei" :> "Taiwan") @@
    ("Hong Kong, China" :> "Hong Kong") @@
    ("Russian Olympic Committee" :> "Russia") @@
    ("Russian Federation" :> "Russia") @@
    ("Islamic Republic of Iran" :> "Iran")

\* COUNTRY_ALIASES is an object literal, so its prototype is Object.prototype:
\* these property names resolve there when they are not own properties
ObjectPrototypeKeys ==
    {"constructor", "__proto__", "hasOwnProperty", "isPrototypeOf",
     "propertyIsEnumerable", "toLocaleString", "toString", "valueOf",
     "__defineGetter__", "__defineSetter__", "__lookupGetter__",
     "__lookupSetter__"}

\* COUNTRY_ALIASES[key]: own property, else inherited property, else undefined
GetAlias(key) ==
    IF key \in DOMAIN COUNTRY_ALIASES THEN Str(COUNTRY_ALIASES[key])
    ELSE IF key \in ObjectPrototypeKeys THEN Builtin("Object.prototype." \o key)
    ELSE Undefined

normalizeCountry(country, countryLong) ==
    LET raw == IF Truthy(countryLong) THEN countryLong ELSE country
    IN  IF ~Truthy(raw) THEN Null
        ELSE LET alias == GetAlias(raw[2])
             IN  IF alias = Undefined \/ alias = Null THEN raw ELSE alias

----------------------------------------------------------------------------
(* JavaScript Map and d3.rollups (an InternMap): entries <<key, value>> in *)
(* insertion order                                                         *)

MapHas(m, k) == \E i \in 1..Len(m) : m[i][1] = k

MapIndex(m, k) == CHOOSE i \in 1..Len(m) : m[i][1] = k

\* Map.prototype.get, for a map of non-empty strings: "" stands for undefined
MapGet(m, k) == IF MapHas(m, k) THEN m[MapIndex(m, k)][2] ELSE ""

\* mutant: an existing key keeps its first value
MapSetKeepFirst(m, k, v) ==
    IF MapHas(m, k) THEN m ELSE Append(m, <<k, v>>)

\* Map.prototype.set: an existing key keeps its place and takes the new value
MapSet(m, k, v) ==
    IF MapHas(m, k)
    THEN [m EXCEPT ![MapIndex(m, k)] = <<k, v>>]
    ELSE Append(m, <<k, v>>)

\* d3.group over the first n values: values[i] joins the group of keys[i];
\* groups are in the order of their first key
RECURSIVE GroupUpTo(_, _, _)
GroupUpTo(values, keys, n) ==
    IF n = 0 THEN <<>>
    ELSE LET groups == GroupUpTo(values, keys, n - 1)
             k == keys[n]
         IN  IF MapHas(groups, k)
             THEN [groups EXCEPT ![MapIndex(groups, k)] =
                      <<k, Append(groups[MapIndex(groups, k)][2], values[n])>>]
             ELSE Append(groups, <<k, <<values[n]>> >>)

Group(values, keys) == GroupUpTo(values, keys, Len(values))

\* d3.rollups(values, v => v.length, key)
RollupsCount(values, keys) ==
    LET g == Group(values, keys)
    IN  [i \in 1..Len(g) |-> <<g[i][1], Len(g[i][2])>>]

\* mutant: one flat grouping by the pair of keys, regrouped by nothing
RollupsCount2Flat(values, keys1, keys2) ==
    LET g == Group(values, [i \in 1..Len(values) |-> <<keys1[i], keys2[i]>>])
    IN  [i \in 1..Len(g) |-> <<g[i][1][1], << <<g[i][1][2], Len(g[i][2])>> >> >>]

\* d3.rollups(values, v => v.length, key1, key2): nested, <<k1, <<k2, n>>...>>
RollupsCount2(values, keys1, keys2) ==
    LET idx == [i \in 1..Len(values) |-> i]
        g == Group(idx, keys1)
    IN  [i \in 1..Len(g) |->
            <<g[i][1],
              RollupsCount([j \in 1..Len(g[i][2]) |-> values[g[i][2][j]]],
                           [j \in 1..Len(g[i][2]) |-> keys2[g[i][2][j]]])>>]

\* d3.rollups(cells, v => d3.sum(v, d => d.value), key)
RollupsSumValue(cells, keys) ==
    LET g == Group(cells, keys)
    IN  [i \in 1..Len(g) |->
            <<g[i][1], SumSeq([j \in 1..Len(g[i][2]) |-> g[i][2][j].value])>>]

\* place entry e in a list sorted by descending count, after the entries
\* that do not compare greater than it
RECURSIVE InsertDescending(_, _)
InsertDescending(sorted, e) ==
    IF sorted = <<>> THEN <<e>>
    ELSE IF Head(sorted)[2] >= e[2]
         THEN <<Head(sorted)>> \o InsertDescending(Tail(sorted), e)
         ELSE <<e>> \o sorted

RECURSIVE SortUpTo(_, _)
SortUpTo(entries, n) ==
    IF n = 0 THEN <<>>
    ELSE InsertDescending(SortUpTo(entries, n - 1), entries[n])

\* mutant: ascending by count
RECURSIVE InsertAscending(_, _)
InsertAscending(sorted, e) ==
    IF sorted = <<>> THEN <<e>>
    ELSE IF Head(sorted)[2] <= e[2]
         THEN <<Head(sorted)>> \o InsertAscending(Tail(sorted), e)
         ELSE <<e>> \o sorted

RECURSIVE SortAscendingUpTo(_, _)
SortAscendingUpTo(entries, n) ==
    IF n = 0 THEN <<>>
    ELSE InsertAscending(SortAscendingUpTo(entries, n - 1), entries[n])

sortAscending(entries) == SortAscendingUpTo(entries, Len(entries))

\* entries.sort((a, b) => b[1] - a[1]): descending by count, stable
sortDescending(entries) == SortUpTo(entries, Len(entries))

\* .slice(0, k).map(d => d[0])
sliceKeys(entries, k) ==
    [i \in 1..(IF Len(entries) < k THEN Len(entries) ELSE k) |-> entries[i][1]]

includes(list, x) == \E i \in 1..Len(list) : list[i] = x

\* the nested rollup flattened as the forEach loops push it
RECURSIVE FlattenUpTo(_, _)
FlattenUpTo(rolled, n) ==
    IF n = 0 THEN <<>>
    ELSE FlattenUpTo(rolled, n - 1)
         \o [j \in 1..Len(rolled[n][2]) |->
                <<rolled[n][1], rolled[n][2][j][1], rolled[n][2][j][2]>>]

Flatten(rolled) == FlattenUpTo(rolled, Len(rolled))

\* new Set filled with each link's source, then target: a name stays where it
\* was first added
nodeNames(links) ==
    LET added == [i \in 1..(2 * Len(links)) |->
                     IF i % 2 = 1 THEN links[(i + 1) \div 2].source
                     ELSE links[i \div 2].target]
        first == SelectSeq([i \in 1..Len(added) |-> i],
                           LAMBDA i : \A j \in 1..(i - 1) : added[j] # added[i])
    IN  [i \in 1..Len(first) |-> added[first[i]]]

----------------------------------------------------------------------------
(* The join of medals.csv with medallists.csv *)

\* medallists.forEach(d => ...nameToCountry.set(normalizeName(d.name, true), d.country)),
\* over the first n rows
RECURSIVE BuildNameToCountry(_, _)
BuildNameToCountry(medallists, n) ==
    IF n = 0 THEN <<>>
    ELSE LET nameToCountry == BuildNameToCountry(medallists, n - 1)
             d == medallists[n]
         IN  IF d.name = <<>> \/ d.country = "" THEN nameToCountry
             ELSE MapSet(nameToCountry, normalizeName(d.name, TRUE), d.country)

\* SankeyDiagram.vue: the record medals.map(...) yields for one row, or none
SankeyJoinRow(d, nameToCountry) ==
    LET country == MapGet(nameToCountry, normalizeName(d.name, FALSE))
    IN  IF d.name = <<>> \/ d.discipline = "" \/ d.medal_type = "" THEN <<>>
        ELSE IF country = "" THEN <<>>
        ELSE << [country |-> country, discipline |-> d.discipline,
                 medal |-> d.medal_type] >>

\* SankeyDiagram.vue: medals.map(...).filter(d => d !== null), first n rows
RECURSIVE JoinSankey(_, _, _)
JoinSankey(medals, n, nameToCountry) ==
    IF n = 0 THEN <<>>
    ELSE JoinSankey(medals, n - 1, nameToCountry)
         \o SankeyJoinRow(medals[n], nameToCountry)

\* MedalHeatmap.vue: the record medals.map(...) yields for one row, or none
HeatmapJoinRow(d, nameToCountry) ==
    LET country == MapGet(nameToCountry, normalizeName(d.name, FALSE))
    IN  IF d.name = <<>> \/ d.discipline = "" THEN <<>>
        ELSE IF country = "" THEN <<>>
        ELSE << [country |-> country, discipline |-> d.discipline] >>

\* MedalHeatmap.vue: medals.map(...).filter(d => d !== null), first n rows
RECURSIVE JoinHeatmap(_, _, _)
JoinHeatmap(medals, n, nameToCountry) ==
    IF n = 0 THEN <<>>
    ELSE JoinHeatmap(medals, n - 1, nameToCountry)
         \o HeatmapJoinRow(medals[n], nameToCountry)

CountryOf(records) == [i \in 1..Len(records) |-> records[i].country]
DisciplineOf(records) == [i \in 1..Len(records) |-> records[i].discipline]
MedalOf(records) == [i \in 1..Len(records) |-> records[i].medal]

\* the top-K constants of the two components
SankeyTopCountries == 8
SankeyTopDisciplines == 8
HeatmapTopCountries == 15
HeatmapTopDisciplines == 8

\* mutant: a record survives on one dimension
KeepEither(records, topCountries, topDisciplines) ==
    SelectSeq(records, LAMBDA d : includes(topCountries, d.country)
                                  \/ includes(topDisciplines, d.discipline))

\* .filter(d => topCountries.includes(d.country) && topDisciplines.includes(d.discipline))
KeepBoth(records, topCountries, topDisciplines) ==
    SelectSeq(records, LAMBDA d : includes(topCountries, d.country)
                                  /\ includes(topDisciplines, d.discipline))

ToLinks(flat) ==
    [i \in 1..Len(flat) |->
        [source |-> flat[i][1], target |-> flat[i][2], value |-> flat[i][3]]]

ToCells(flat) ==
    [i \in 1..Len(flat) |->
        [country |-> flat[i][1], discipline |-> flat[i][2], value |-> flat[i][3]]]

\* mutant: the discipline -> medal flows are taken over the unfiltered join
disciplineToMedalOfJoined(joined, filtered) ==
    RollupsCount2(joined, DisciplineOf(joined), MedalOf(joined))

\* d3.rollups(filtered, v => v.length, d => d.discipline, d => d.medal), with
\* joined and filtered the locals in scope
disciplineToMedalOf(joined, filtered) ==
    RollupsCount2(filtered, DisciplineOf(filtered), MedalOf(filtered))

\* SankeyDiagram.vue loadData, from the parsed tables to nodes and links
loadDataResult(medallists, medals) ==
    LET nameToCountry == BuildNameToCountry(medallists, Len(medallists))
        joined == JoinSankey(medals, Len(medals), nameToCountry)
        topCountries ==
            sliceKeys(sortDescending(RollupsCount(joined, CountryOf(joined))),
                      SankeyTopCountries)
        topDisciplines ==
            sliceKeys(sortDescending(RollupsCount(joined, DisciplineOf(joined))),
                      SankeyTopDisciplines)
        filtered == KeepBoth(joined, topCountries, topDisciplines)
        countryToDiscipline ==
            RollupsCount2(filtered, CountryOf(filtered), DisciplineOf(filtered))
        disciplineToMedal == disciplineToMedalOf(joined, filtered)
        linkMap == ToLinks(Flatten(countryToDiscipline))
                   \o ToLinks(Flatten(disciplineToMedal))
    IN  [loaded |-> TRUE,
         joined |-> joined,
         topCountries |-> topCountries,
         topDisciplines |-> topDisciplines,
         filtered |-> filtered,
         countryToDiscipline |-> countryToDiscipline,
         disciplineToMedal |-> disciplineToMedal,
         nodes |-> nodeNames(linkMap),
         links |-> linkMap]

\* MedalHeatmap.vue loadHeatmapData, from the parsed tables to heatmapData
loadHeatmapDataResult(medallists, medals) ==
    LET nameToCountry == BuildNameToCountry(medallists, Len(medallists))
        joined == JoinHeatmap(medals, Len(medals), nameToCountry)
        rolled == RollupsCount2(joined, CountryOf(joined), DisciplineOf(joined))
        cells == ToCells(Flatten(rolled))
        topCountries ==
            sliceKeys(sortDescending(RollupsSumValue(cells, CountryOf(cells))),
                      HeatmapTopCountries)
        topDisciplines ==
            sliceKeys(sortDescending(RollupsSumValue(cells, DisciplineOf(cells))),
                      HeatmapTopDisciplines)
    IN  [loaded |-> TRUE,
         joined |-> joined,
         cells |-> cells,
         topCountries |-> topCountries,
         topDisciplines |-> topDisciplines,
         heatmapData |-> KeepBoth(cells, topCountries, topDisciplines)]

----------------------------------------------------------------------------
(* AthletesMap.vue: loadAthletes *)

\* counts.set(name, (counts.get(name) ?? 0) + 1) over the first n rows, rows
\* whose normalizeCountry is falsy skipped
RECURSIVE CountAthletes(_, _)
CountAthletes(data, n) ==
    IF n = 0 THEN <<>>
    ELSE LET counts == CountAthletes(data, n - 1)
             name == normalizeCountry(data[n].country, data[n].country_long)
         IN  IF ~Truthy(name) THEN counts
             ELSE MapSet(counts, name,
                         (IF MapHas(counts, name)
                          THEN counts[MapIndex(counts, name)][2] ELSE 0) + 1)

----------------------------------------------------------------------------
(* Idle values of the parts a specification does not exercise *)

NameIdle == nameCall = [name |-> <<>>, reversed |-> FALSE,
                        returned |-> FALSE, result |-> <<>>]

CountryIdle == countryCall = [country |-> <<"undefined">>,
                              countryLong |-> <<"undefined">>,
                              returned |-> FALSE, result |-> <<"undefined">>]

\* the components before their load: nodes, links and heatmapData are empty refs
SankeyUnloaded ==
    [loaded |-> FALSE, joined |-> <<>>, topCountries |-> <<>>,
     topDisciplines |-> <<>>, filtered |-> <<>>, countryToDiscipline |-> <<>>,
     disciplineToMedal |-> <<>>, nodes |-> <<>>, links |-> <<>>]

HeatmapUnloaded ==
    [loaded |-> FALSE, joined |-> <<>>, cells |-> <<>>, topCountries |-> <<>>,
     topDisciplines |-> <<>>, heatmapData |-> <<>>]

PipelinesIdle ==
    /\ medallistsCsv = <<>>
    /\ medalsCsv = <<>>
    /\ sankey = SankeyUnloaded
    /\ heatmap = HeatmapUnloaded

MapIdle ==
    /\ athletesCsv = <<>>
    /\ athleteCounts = <<>>
    /\ mounted = FALSE
    /\ athletesLoaded = FALSE
    /\ size = [width |-> 0, height |-> 0]
    /\ svg = <<>>
    /\ pendingFetch = 0
    /\ started = 0
    /\ rejected = 0

pipelineVars == <<medallistsCsv, medalsCsv, sankey, heatmap>>
mapVars == <<athletesCsv, athleteCounts, mounted, athletesLoaded, size, svg,
             pendingFetch, started, rejected>>

----------------------------------------------------------------------------
(* Specification of normalizeName as a function of its arguments *)

InitNormalizeName ==
    /\ nameCall \in [name : SeqsUpTo(NameChars, MaxNameLen),
                     reversed : BOOLEAN,
                     returned : {FALSE},
                     result : {<<>>}]
    /\ CountryIdle /\ PipelinesIdle /\ MapIdle

CallNormalizeName ==
    /\ ~nameCall.returned
    /\ nameCall' = [nameCall EXCEPT
                       !.returned = TRUE,
                       !.result = normalizeName(nameCall.name, nameCall.reversed)]
    /\ UNCHANGED <<countryCall, pipelineVars, mapVars>>

NextNormalizeName == CallNormalizeName

SpecNormalizeName == InitNormalizeName /\ [][NextNormalizeName]_vars

----------------------------------------------------------------------------
(* Tokens of a name, stated without trim and split: the maximal runs of    *)
(* non-whitespace characters, in order of their start                      *)

TokenStarts(s) ==
    {i \in 1..Len(s) : s[i] \notin WhiteSpace /\ (i = 1 \/ s[i - 1] \in WhiteSpace)}

TokenAt(s, i) ==
    LET j == CHOOSE k \in i..Len(s) :
                 /\ \A m \in i..k : s[m] \notin WhiteSpace
                 /\ (k = Len(s) \/ s[k + 1] \in WhiteSpace)
    IN  SubSeq(s, i, j)

FirstToken(s) == TokenAt(s, Min(TokenStarts(s)))

SecondToken(s) == TokenAt(s, Min(TokenStarts(s) \ {Min(TokenStarts(s))}))

\* C1: a name with at least two whitespace-separated tokens t0, t1 normalises
\* to lowercase(t0 " " t1), and with reversed to lowercase(t1 " " t0); so the
\* reversed key of "a b" is the plain key of "b a".
C1_TwoTokenKey ==
    (nameCall.returned /\ Cardinality(TokenStarts(nameCall.name)) >= 2) =>
        LET t0 == FirstToken(nameCall.name)
            t1 == SecondToken(nameCall.name)
        IN  /\ nameCall.result =
                 IF nameCall.reversed
                 THEN toLowerCase(t1 \o <<" ">> \o t0)
                 ELSE toLowerCase(t0 \o <<" ">> \o t1)
            /\ normalizeName(t0 \o <<" ">> \o t1, TRUE) =
                 normalizeName(t1 \o <<" ">> \o t0, FALSE)

C1_Witness ==
    /\ nameCall.returned
    /\ nameCall.reversed
    /\ nameCall.name = <<" ", "B", "\t", " ", "a">>
    /\ nameCall.result = <<"a", " ", "b">>

\* C2: a name with fewer than two tokens normalises, whatever reversed is, to
\* its lowercased single token without surrounding whitespace, and to the
\* empty key when it is empty after trimming.
C2_SingleTokenKey ==
    (nameCall.returned /\ Cardinality(TokenStarts(nameCall.name)) < 2) =>
        nameCall.result =
            IF TokenStarts(nameCall.name) = {} THEN <<>>
            ELSE toLowerCase(FirstToken(nameCall.name))

----------------------------------------------------------------------------
(* Specification of normalizeCountry as a function of its arguments *)

\* labels a CSV field can hold: every alias key, unmapped country names, a
\* case variant of a key, and labels that are property names of Object.prototype
CountryLabels ==
    DOMAIN COUNTRY_ALIASES \cup
    {"France", "Wakanda", "usa", "United Kingdom", "constructor", "toString",
     "__proto__"}

CountryArgs == {Undefined, Str("")} \cup {Str(l) : l \in CountryLabels}

InitNormalizeCountry ==
    /\ countryCall \in [country : CountryArgs,
                        countryLong : CountryArgs,
                        returned : {FALSE},
                        result : {Undefined}]
    /\ NameIdle /\ PipelinesIdle /\ MapIdle

CallNormalizeCountry ==
    /\ ~countryCall.returned
    /\ countryCall' = [countryCall EXCEPT
                          !.returned = TRUE,
                          !.result = normalizeCountry(countryCall.country,
                                                      countryCall.countryLong)]
    /\ UNCHANGED <<nameCall, pipelineVars, mapVars>>

NextNormalizeCountry == CallNormalizeCountry

SpecNormalizeCountry == InitNormalizeCountry /\ [][NextNormalizeCountry]_vars

Present(v) == v # Undefined /\ v # Str("")

\* C3: normalizeCountry returns null exactly when neither argument is present;
\* otherwise it chooses countryLong when present and country when not, and
\* returns the canonical name when the chosen label is a key of
\* COUNTRY_ALIASES and the chosen label itself when it is not.
C3_AliasOrIdentity ==
    countryCall.returned =>
        LET chosen == IF Present(countryCall.countryLong)
                      THEN countryCall.countryLong
                      ELSE countryCall.country
        IN  /\ (countryCall.result = Null) <=>
                   (~Present(countryCall.country) /\ ~Present(countryCall.countryLong))
            /\ Present(chosen) =>
                   countryCall.result =
                       IF chosen[2] \in DOMAIN COUNTRY_ALIASES
                       THEN Str(COUNTRY_ALIASES[chosen[2]])
                       ELSE chosen

----------------------------------------------------------------------------
(* Input tables of the two medal pipelines.  Athlete k (0..15) has first   *)
(* name Letters[k \div 4 + 1] and last name Letters[k % 4 + 1];            *)
(* medals.csv writes "first last", medallists.csv "last first".            *)

Letters == <<"a", "b", "c", "d">>

FirstLast(k) == <<Letters[(k \div 4) + 1], " ", Letters[(k % 4) + 1]>>
LastFirst(k) == <<Letters[(k % 4) + 1], " ", Letters[(k \div 4) + 1]>>

Countries ==
    <<"C01", "C02", "C03", "C04", "C05", "C06", "C07", "C08",
      "C09", "C10", "C11", "C12", "C13", "C14", "C15", "C16">>

Disciplines == <<"D1", "D2", "D3", "D4", "D5", "D6", "D7", "D8", "D9">>

MedalTypes == <<"Gold Medal", "Silver Medal", "Bronze Medal">>

\* sixteen medallists of sixteen countries
RosterMedallists ==
    [k \in 1..16 |-> [name |-> LastFirst(k - 1), country |-> Countries[k]]]

\* twenty medals, every athlete one and the first four athletes a second one,
\* then one medal of an athlete who is not among the medallists
RosterMedals ==
    [k \in 1..20 |-> [name |-> FirstLast((k - 1) % 16),
                      discipline |-> Disciplines[((k - 1) % 9) + 1],
                      medal_type |-> MedalTypes[((k - 1) % 3) + 1]]]
    \o << [name |-> <<"a">>, discipline |-> "D3", medal_type |-> "Gold Medal"] >>

MedallistBases == {<<>>, RosterMedallists}
MedalBases == {<<>>, RosterMedals}

\* rows added to a base table
ExtraMedallistRows ==
    { [name |-> <<"B", "\t", " ", "a">>, country |-> "C16"],
      [name |-> <<"b", " ", "a">>, country |-> "ZZ"],
      [name |-> <<"b", " ", "a">>, country |-> ""],
      [name |-> <<>>, country |-> "ZZ"],
      [name |-> <<"d">>, country |-> "ZZ"] }

ExtraMedalRows ==
    { [name |-> <<"a", " ", "b">>, discipline |-> "D9", medal_type |-> "Gold Medal"],
      [name |-> <<" ", "A", " ", " ", "B", " ", "c">>, discipline |-> "D1",
       medal_type |-> "Silver Medal"],
      [name |-> <<"d">>, discipline |-> "D10", medal_type |-> "Bronze Medal"],
      [name |-> <<"a", " ", "b">>, discipline |-> "", medal_type |-> "Gold Medal"],
      [name |-> <<"a", " ", "b">>, discipline |-> "D8", medal_type |-> ""],
      [name |-> <<>>, discipline |-> "D1", medal_type |-> "Gold Medal"] }

MaxExtraMedallists == 1
MaxExtraMedals == 1

Init ==
    /\ \E base \in MedallistBases :
       \E extra \in SeqsUpTo(ExtraMedallistRows, MaxExtraMedallists) :
           medallistsCsv = base \o extra
    /\ \E base \in MedalBases :
       \E extra \in SeqsUpTo(ExtraMedalRows, MaxExtraMedals) :
       \E front \in BOOLEAN :
           medalsCsv = IF front THEN extra \o base ELSE base \o extra
    /\ sankey = SankeyUnloaded
    /\ heatmap = HeatmapUnloaded
    /\ NameIdle /\ CountryIdle /\ MapIdle

\* SankeyDiagram.vue: loadData resolves (both d3.csv calls have)
loadData ==
    /\ ~sankey.loaded
    /\ sankey' = loadDataResult(medallistsCsv, medalsCsv)
    /\ UNCHANGED <<nameCall, countryCall, medallistsCsv, medalsCsv, heatmap, mapVars>>

\* MedalHeatmap.vue: loadHeatmapData resolves
loadHeatmapData ==
    /\ ~heatmap.loaded
    /\ heatmap' = loadHeatmapDataResult(medallistsCsv, medalsCsv)
    /\ UNCHANGED <<nameCall, countryCall, medallistsCsv, medalsCsv, sankey, mapVars>>

Next == loadData \/ loadHeatmapData

Spec == Init /\ [][Next]_vars

----------------------------------------------------------------------------
(* Properties of the join *)

Max(S) == CHOOSE x \in S : \A y \in S : x >= y

\* medallist rows that have both name and country, and match a medals row
Matches(r) ==
    {i \in 1..Len(medallistsCsv) :
        /\ medallistsCsv[i].name # <<>>
        /\ medallistsCsv[i].country # ""
        /\ normalizeName(medallistsCsv[i].name, TRUE) = normalizeName(r.name, FALSE)}

LastMatchCountry(r) == medallistsCsv[Max(Matches(r))].country

ExpectedSankeyJoin ==
    LET rows == SelectSeq(medalsCsv,
                    LAMBDA r : /\ r.name # <<>> /\ r.discipline # ""
                               /\ r.medal_type # "" /\ Matches(r) # {})
    IN  [i \in 1..Len(rows) |->
            [country |-> LastMatchCountry(rows[i]),
             discipline |-> rows[i].discipline,
             medal |-> rows[i].medal_type]]

ExpectedHeatmapJoin ==
    LET rows == SelectSeq(medalsCsv,
                    LAMBDA r : /\ r.name # <<>> /\ r.discipline # ""
                               /\ Matches(r) # {})
    IN  [i \in 1..Len(rows) |->
            [country |-> LastMatchCountry(rows[i]),
             discipline |-> rows[i].discipline]]

\* C4: in both pipelines a medals row yields a joined record iff it has every
\* required field and its key equals the reversed key of a medallist row that
\* has name and country; the record takes the country of the last such row
\* and its own other fields, and joined records keep the medals rows' order.
C4_InnerJoinLastWins ==
    /\ sankey.loaded => sankey.joined = ExpectedSankeyJoin
    /\ heatmap.loaded => heatmap.joined = ExpectedHeatmapJoin

C4_Witness ==
    /\ sankey.loaded /\ heatmap.loaded
    /\ \E i \in 1..Len(medalsCsv) :
         /\ medalsCsv[i].discipline # ""
         /\ \E j, k \in Matches(medalsCsv[i]) :
               j < k /\ medallistsCsv[j].country # medallistsCsv[k].country
    /\ \E i \in 1..Len(sankey.joined) : sankey.joined[i].country = "ZZ"
    /\ Len(sankey.joined) < Len(heatmap.joined)
    /\ Len(heatmap.joined) < Len(medalsCsv)

----------------------------------------------------------------------------
(* Properties of the top-K sets and the filter *)

InBoth(d, topCountries, topDisciplines) ==
    d.country \in Range(topCountries) /\ d.discipline \in Range(topDisciplines)

Occurrences(list, x) == Cardinality({i \in 1..Len(list) : list[i] = x})

\* kept holds every element of all that is in keep, as often as all does, and
\* nothing else
KeepsExactly(kept, all, keep) ==
    /\ \A x \in Range(all) :
          Occurrences(kept, x) = IF x \in keep THEN Occurrences(all, x) ELSE 0
    /\ Range(kept) \subseteq Range(all)

\* C5: a joined record (flow diagram) or a cell (heatmap) is in the final
\* filtered set iff its country is in the top-country set and its discipline
\* is in the top-discipline set.
C5_ConjunctiveFilter ==
    /\ sankey.loaded =>
          KeepsExactly(sankey.filtered, sankey.joined,
              {d \in Range(sankey.joined) :
                  InBoth(d, sankey.topCountries, sankey.topDisciplines)})
    /\ heatmap.loaded =>
          KeepsExactly(heatmap.heatmapData, heatmap.cells,
              {d \in Range(heatmap.cells) :
                  InBoth(d, heatmap.topCountries, heatmap.topDisciplines)})

OneDimensionOnly(d, topCountries, topDisciplines) ==
    (d.country \in Range(topCountries)) # (d.discipline \in Range(topDisciplines))

C5_Witness ==
    /\ sankey.loaded /\ heatmap.loaded
    /\ sankey.filtered # <<>> /\ heatmap.heatmapData # <<>>
    /\ \E d \in Range(sankey.joined) :
          d.country \in Range(sankey.topCountries)
          /\ d.discipline \notin Range(sankey.topDisciplines)
    /\ \E d \in Range(sankey.joined) :
          d.country \notin Range(sankey.topCountries)
          /\ d.discipline \in Range(sankey.topDisciplines)
    /\ \E d \in Range(heatmap.cells) :
          OneDimensionOnly(d, heatmap.topCountries, heatmap.topDisciplines)

FirstIndex(list, x) == Min({i \in 1..Len(list) : list[i] = x})

\* a ranks before b: more records, or as many and first seen earlier in order
RanksBefore(a, b, keys, order) ==
    \/ Occurrences(keys, a) > Occurrences(keys, b)
    \/ /\ Occurrences(keys, a) = Occurrences(keys, b)
       /\ FirstIndex(order, a) < FirstIndex(order, b)

\* top is the first k keys of keys ranked by count, ties by first occurrence
\* in order
IsTopK(top, keys, order, k) ==
    /\ Len(top) = IF Cardinality(Range(keys)) < k THEN Cardinality(Range(keys)) ELSE k
    /\ Range(top) \subseteq Range(keys)
    /\ \A i, j \in 1..Len(top) : i < j => RanksBefore(top[i], top[j], keys, order)
    /\ \A x \in Range(keys) \ Range(top) :
          \A i \in 1..Len(top) : RanksBefore(top[i], x, keys, order)

SankeyTopKFromJoin ==
    sankey.loaded =>
        /\ IsTopK(sankey.topCountries, CountryOf(sankey.joined),
                  CountryOf(sankey.joined), 8)
        /\ IsTopK(sankey.topDisciplines, DisciplineOf(sankey.joined),
                  DisciplineOf(sankey.joined), 8)

HeatmapTopCountriesFromJoin ==
    heatmap.loaded =>
        IsTopK(heatmap.topCountries, CountryOf(heatmap.joined),
               CountryOf(heatmap.joined), 15)

\* C6 as claimed: every top set is the first K keys by descending count of the
\* joined records, keys of equal count in the order of their first occurrence
\* in the joined records (K = 8, 8 for the flow diagram, 15, 8 for the heatmap).
C6_TopKByJoinOrder ==
    /\ SankeyTopKFromJoin
    /\ HeatmapTopCountriesFromJoin
    /\ heatmap.loaded =>
          IsTopK(heatmap.topDisciplines, DisciplineOf(heatmap.joined),
                 DisciplineOf(heatmap.joined), 8)

\* C6 amended: as claimed, except that the heatmap's disciplines of equal count
\* are kept in the order of their first occurrence in the cell list (cells are
\* grouped by country), not in the joined records.
C6_TopKAmended ==
    /\ SankeyTopKFromJoin
    /\ HeatmapTopCountriesFromJoin
    /\ heatmap.loaded =>
          IsTopK(heatmap.topDisciplines, DisciplineOf(heatmap.joined),
                 DisciplineOf(heatmap.cells), 8)

\* both components loaded; every top set cuts a tie, and the heatmap's
\* discipline set differs from the one the join order would give
C6_Witness ==
    /\ sankey.loaded /\ heatmap.loaded
    /\ Cardinality(Range(CountryOf(sankey.joined))) > 8
    /\ Cardinality(Range(DisciplineOf(sankey.joined))) > 8
    /\ Cardinality(Range(CountryOf(heatmap.joined))) > 15
    /\ Range(heatmap.topDisciplines) # Range(sankey.topDisciplines)
    /\ sankey.joined = [i \in 1..Len(heatmap.joined) |->
                           [country |-> heatmap.joined[i].country,
                            discipline |-> heatmap.joined[i].discipline,
                            medal |-> sankey.joined[i].medal]]

----------------------------------------------------------------------------
(* Properties of the aggregations *)

PairOf(d) == <<d.country, d.discipline>>

PairsOf(records) == [i \in 1..Len(records) |-> PairOf(records[i])]

\* C7: before top-K filtering the heatmap's cell list holds one cell per
\* distinct (country, discipline) pair of the joined records, valued with the
\* number of joined records of that pair, ordered by first occurrence of the
\* country and, within a country, of the discipline.
C7_CellsPerPair ==
    heatmap.loaded =>
        LET joined == heatmap.joined
            cells == heatmap.cells
            pairs == PairsOf(joined)
        IN  /\ Len(cells) = Cardinality(Range(pairs))
            /\ {PairOf(cells[i]) : i \in 1..Len(cells)} = Range(pairs)
            /\ \A i \in 1..Len(cells) :
                  /\ cells[i].value = Occurrences(pairs, PairOf(cells[i]))
                  /\ cells[i].value >= 1
            /\ SumSeq([i \in 1..Len(cells) |-> cells[i].value]) = Len(joined)
            /\ \A i, j \in 1..Len(cells) : i < j =>
                  \/ FirstIndex(CountryOf(joined), cells[i].country)
                        < FirstIndex(CountryOf(joined), cells[j].country)
                  \/ /\ cells[i].country = cells[j].country
                     /\ FirstIndex(pairs, PairOf(cells[i]))
                           < FirstIndex(pairs, PairOf(cells[j]))

\* a country's second discipline is first seen after another country's records
C7_Witness ==
    /\ heatmap.loaded
    /\ \E i \in 1..Len(heatmap.cells) : heatmap.cells[i].value >= 2
    /\ \E i, j \in 1..Len(heatmap.cells) :
          /\ i < j
          /\ FirstIndex(PairsOf(heatmap.joined), PairOf(heatmap.cells[i]))
                > FirstIndex(PairsOf(heatmap.joined), PairOf(heatmap.cells[j]))

SumValues(links) == SumSeq([i \in 1..Len(links) |-> links[i].value])

CountryLinks ==
    SubSeq(sankey.links, 1, Len(Flatten(sankey.countryToDiscipline)))

MedalLinks ==
    SubSeq(sankey.links, Len(Flatten(sankey.countryToDiscipline)) + 1,
           Len(sankey.links))

\* C9: for every discipline d the values of the country -> d links and of the
\* d -> medal links both sum to the number of filtered records of discipline
\* d, and each of the two link families sums to the number of filtered records.
C9_FlowConservation ==
    sankey.loaded =>
        /\ Len(sankey.links) = Len(Flatten(sankey.countryToDiscipline))
                                 + Len(Flatten(sankey.disciplineToMedal))
        /\ \A d \in Range(DisciplineOf(sankey.filtered))
                    \cup {CountryLinks[i].target : i \in 1..Len(CountryLinks)}
                    \cup {MedalLinks[i].source : i \in 1..Len(MedalLinks)} :
              LET inflow == SumValues(SelectSeq(CountryLinks, LAMBDA l : l.target = d))
                  outflow == SumValues(SelectSeq(MedalLinks, LAMBDA l : l.source = d))
              IN  /\ inflow = outflow
                  /\ inflow = Occurrences(DisciplineOf(sankey.filtered), d)
        /\ SumValues(CountryLinks) = Len(sankey.filtered)
        /\ SumValues(MedalLinks) = Len(sankey.filtered)

C9_Witness ==
    /\ sankey.loaded
    /\ Len(sankey.filtered) < Len(sankey.joined)
    /\ \E i \in 1..Len(MedalLinks) : MedalLinks[i].value >= 2
    /\ \E i, j \in 1..Len(CountryLinks) :
          i # j /\ CountryLinks[i].target = CountryLinks[j].target
    /\ \E i, j \in 1..Len(MedalLinks) :
          i # j /\ MedalLinks[i].source = MedalLinks[j].source

----------------------------------------------------------------------------
(* AthletesMap.vue: mount, load, resize and the render of the map *)

MaxAthleteRows == 2
MaxInitMapCalls == 3

AthleteRows ==
    [country : {Undefined, Str(""), Str("USA"), Str("France"), Str("constructor")},
     country_long : {Undefined, Str(""), Str("United States"), Str("France")}]

\* clientWidth and clientHeight of the container at a resize
ContainerSizes ==
    {[width |-> 0, height |-> 0], [width |-> 800, height |-> 600],
     [width |-> 400, height |-> 300]}

InitMap ==
    /\ athletesCsv \in SeqsUpTo(AthleteRows, MaxAthleteRows)
    /\ athleteCounts = <<>>
    /\ mounted = FALSE
    /\ athletesLoaded = FALSE
    /\ size = [width |-> 0, height |-> 0]
    /\ svg = <<>>
    /\ pendingFetch = 0
    /\ started = 0
    /\ rejected = 0
    /\ NameIdle /\ CountryIdle /\ PipelinesIdle

\* the watcher's test on the new [size, athleteCounts]
WatchFires(s, counts) == s.width > 0 /\ s.height > 0 /\ Len(counts) > 0

\* the watcher's callback: initMap runs to its await (the SVG is cleared, the
\* title is appended, the fetch of the world map is pending), or nothing
Watch(s, counts) ==
    IF WatchFires(s, counts)
    THEN /\ started < MaxInitMapCalls
         /\ svg' = <<"text">>
         /\ pendingFetch' = pendingFetch + 1
         /\ started' = started + 1
    ELSE UNCHANGED <<svg, pendingFetch, started>>

\* onMounted up to its await: the resize listener is added, onResize() runs
onMounted ==
    /\ ~mounted
    /\ mounted' = TRUE
    /\ \E s \in ContainerSizes :
          /\ size' = s
          /\ Watch(s, athleteCounts)
    /\ UNCHANGED <<nameCall, countryCall, pipelineVars, athletesCsv,
                   athleteCounts, athletesLoaded, rejected>>

\* loadAthletes resumes with the parsed athletes.csv
loadAthletes ==
    /\ mounted /\ ~athletesLoaded
    /\ athletesLoaded' = TRUE
    /\ athleteCounts' = CountAthletes(athletesCsv, Len(athletesCsv))
    /\ Watch(size, athleteCounts')
    /\ UNCHANGED <<nameCall, countryCall, pipelineVars, athletesCsv, mounted,
                   size, rejected>>

\* a (debounced) window resize: onResize assigns a new size object
onResize ==
    /\ mounted
    /\ \E s \in ContainerSizes :
          /\ size' = s
          /\ Watch(s, athleteCounts)
    /\ UNCHANGED <<nameCall, countryCall, pipelineVars, athletesCsv,
                   athleteCounts, mounted, athletesLoaded, rejected>>

\* the fetch of one suspended initMap resolves: it appends the map layer, the
\* gradient definition and the legend
initMapResume ==
    /\ pendingFetch > 0
    /\ pendingFetch' = pendingFetch - 1
    /\ svg' = svg \o <<"g.map", "defs", "g.legend">>
    /\ UNCHANGED <<nameCall, countryCall, pipelineVars, athletesCsv,
                   athleteCounts, mounted, athletesLoaded, size, started, rejected>>

\* the fetch of one suspended initMap is rejected: the call ends there
initMapReject ==
    /\ pendingFetch > 0
    /\ pendingFetch' = pendingFetch - 1
    /\ rejected' = rejected + 1
    /\ UNCHANGED <<nameCall, countryCall, pipelineVars, athletesCsv,
                   athleteCounts, mounted, athletesLoaded, size, svg, started>>

NextMap ==
    onMounted \/ loadAthletes \/ onResize \/ initMapResume \/ initMapReject

SpecMap == InitMap /\ [][NextMap]_vars

LabelledRows ==
    {i \in 1..Len(athletesCsv) :
        Present(athletesCsv[i].country) \/ Present(athletesCsv[i].country_long)}

ChosenLabel(d) ==
    IF Present(d.country_long) THEN d.country_long[2] ELSE d.country[2]

\* the canonical name of a labelled row: its alias, or its raw label
CanonicalName(d) ==
    IF ChosenLabel(d) \in DOMAIN COUNTRY_ALIASES
    THEN COUNTRY_ALIASES[ChosenLabel(d)]
    ELSE ChosenLabel(d)

\* C8: after loadAthletes, athleteCounts maps each canonical country name to
\* the number of rows that normalise to it; its keys are exactly the canonical
\* names of the rows that carry a label (unmapped labels under their raw
\* label), every count is >= 1, and the counts sum to the number of such rows.
C8_ChoroplethTotals ==
    athletesLoaded =>
        /\ \A i, j \in 1..Len(athleteCounts) :
              i # j => athleteCounts[i][1] # athleteCounts[j][1]
        /\ {athleteCounts[i][1] : i \in 1..Len(athleteCounts)} =
              {Str(CanonicalName(athletesCsv[i])) : i \in LabelledRows}
        /\ \A e \in Range(athleteCounts) :
              /\ e[2] = Cardinality({i \in LabelledRows :
                           normalizeCountry(athletesCsv[i].country,
                                            athletesCsv[i].country_long) = e[1]})
              /\ e[2] >= 1
        /\ SumSeq([i \in 1..Len(athleteCounts) |-> athleteCounts[i][2]]) =
              Cardinality(LabelledRows)

\* C10: once every started initMap call has finished (none rejected), the SVG
\* holds exactly one map layer, one gradient definition and one legend.
C10_SingleDrawing ==
    (started > 0 /\ pendingFetch = 0 /\ rejected = 0) =>
        /\ Occurrences(svg, "g.map") = 1
        /\ Occurrences(svg, "defs") = 1
        /\ Occurrences(svg, "g.legend") = 1

=============================================================================
